---- MODULE Spec2Model ----
(***************************************************************************)
(* Model of apodize (src/src/lib.rs): the generalized cosine window        *)
(* formula cosine_at, the iterator CosineWindowIter with its next method,  *)
(* the constructor cosine_iter and the four presets built on it.           *)
(*                                                                         *)
(* The floating point type T is modelled as decimal fixed point: a finite  *)
(* value is an integer count of 1/Scale units, and the two IEEE classes    *)
(* that a zero divisor produces (infinity, NaN) are kept as classes of     *)
(* their own.  Every operation rounds to the nearest representable value,  *)
(* as the floating point operation does, so results carry rounding error   *)
(* and equalities "within floating-point tolerance" are stated with Tol.   *)
(***************************************************************************)
EXTENDS Integers, Sequences, FiniteSets, TLC

(***************************************************************************)
(* Bounds of the model.                                                    *)
(***************************************************************************)
\* largest size handed to a constructor or to cosine_at
MaxSize == 7
\* calls of next made after the iterator is exhausted
MaxExtra == 2
\* largest size handed to a constructor when two instances are alive at once
MaxPairSize == 4
\* largest index handed to cosine_at in a direct call
MaxIndex == 8

(***************************************************************************)
(* The floating point type T.                                              *)
(***************************************************************************)
\* units per 1.0: four decimal digits, the most for which every product
\* below stays inside TLC's 32 bit integers
Scale == 10 ^ 4
\* decimal literals of the source are written in millionths
Micro == 10 ^ 6
\* |x - y| <= Tol is "equal within floating-point tolerance": ten units
\* of the last digit
Tol == Scale \div 1000

Fin(n) == [cls |-> "fin", v |-> n]
Inf(s) == [cls |-> "inf", v |-> s]
NaN == [cls |-> "nan", v |-> 0]

IsFin(x) == x.cls = "fin"
IsNaN(x) == x.cls = "nan"

Abs(n) == IF n < 0 THEN -n ELSE n
Sign(n) == IF n < 0 THEN -1 ELSE IF n > 0 THEN 1 ELSE 0

\* round(n * m / Scale) to nearest, computed without forming n * m
MulRound(n, m) == (n \div Scale) * m + ((n % Scale) * m + Scale \div 2) \div Scale

\* round(n / q) to nearest for q > 0
DivRound(n, q) == (n + q \div 2) \div q

\* T's multiplication
FMul(x, y) ==
    IF IsNaN(x) \/ IsNaN(y) THEN NaN
    ELSE IF ~IsFin(x) \/ ~IsFin(y)
         THEN IF Sign(x.v) * Sign(y.v) = 0 THEN NaN ELSE Inf(Sign(x.v) * Sign(y.v))
         ELSE Fin(MulRound(x.v, y.v))

\* T's division
FDiv(x, y) ==
    IF IsNaN(x) \/ IsNaN(y) THEN NaN
    ELSE IF ~IsFin(x) THEN (IF ~IsFin(y) THEN NaN
                            ELSE Inf(x.v * (IF y.v < 0 THEN -1 ELSE 1)))
    ELSE IF ~IsFin(y) THEN Fin(0)
    ELSE IF y.v = 0 THEN (IF x.v = 0 THEN NaN ELSE Inf(Sign(x.v)))
    ELSE LET q == Abs(y.v)
             n == x.v * Sign(y.v)
         IN  IF q % Scale = 0
             THEN Fin(DivRound(n, q \div Scale))
             ELSE Fin((n \div q) * Scale + DivRound((n % q) * Scale, q))

\* T's addition
FAdd(x, y) ==
    IF IsNaN(x) \/ IsNaN(y) THEN NaN
    ELSE IF ~IsFin(x) THEN (IF ~IsFin(y) /\ y.v # x.v THEN NaN ELSE x)
    ELSE IF ~IsFin(y) THEN y
    ELSE Fin(x.v + y.v)

\* T's negation
FNeg(x) == IF IsNaN(x) THEN NaN ELSE [cls |-> x.cls, v |-> -x.v]

\* T's subtraction
FSub(x, y) == FAdd(x, FNeg(y))

\* from!(T, <decimal literal>): the literal, given in millionths, rounded to T
FromLit(micro) == Fin(DivRound(micro, Micro \div Scale))

\* from!(T, <usize>): an integer converted to T
FromUsize(n) == Fin(n * Scale)

\* CanRepresentPi::pi: the constant pi of T
pi == FromLit(3141593)

\* cosine of y for 0 <= y <= pi/2 (in units): the Taylor polynomial to y^8
\* in Horner form, each product rounded
CosPoly(y) ==
    LET y2 == MulRound(y, y)
        h4 == Scale - DivRound(y2, 56)
        h3 == Scale - DivRound(MulRound(y2, h4), 30)
        h2 == Scale - DivRound(MulRound(y2, h3), 12)
    IN  Scale - DivRound(MulRound(y2, h2), 2)

\* Float::cos: NaN for NaN and for an infinity; otherwise the argument is
\* reduced modulo 2 pi and folded into [0, pi/2]
FCos(x) ==
    IF ~IsFin(x) THEN NaN
    ELSE LET p  == pi.v
             r  == Abs(x.v) % (2 * p)
             f  == IF r > p THEN 2 * p - r ELSE r
         IN  IF 2 * f > p THEN Fin(-CosPoly(p - f)) ELSE Fin(CosPoly(f))

(***************************************************************************)
(* usize.                                                                  *)
(***************************************************************************)
\* usize::MAX.  usize has the target's pointer width; 16 bits is the
\* narrowest target Rust has, and the width taken here
UsizeMax == 2 ^ 16 - 1

VARIABLES
    overflowChecks, \* the build's overflow-checks setting (on in debug builds)
    status,         \* per instance: "none", "live", or "panicked" (constructor failed)
    via,            \* per instance: the constructor that was called
    req,            \* per instance: the size handed to the constructor
    iter,           \* per instance: the CosineWindowIter value
    calls,          \* per instance: number of calls of next so far
    ret,            \* per instance: what the last call of next returned
    out,            \* per instance: the values next has yielded, in order
    at              \* the last direct call of cosine_at and its outcome

vars == <<overflowChecks, status, via, req, iter, calls, ret, out, at>>

\* the iterator instances: two, so that one can be compared with another
Iters == {1, 2}

(***************************************************************************)
(* struct CosineWindowIter<T>                                              *)
(***************************************************************************)
CosineWindowIter(a, b, c, d, index, size) ==
    [a |-> a, b |-> b, c |-> c, d |-> d, index |-> index, size |-> size]

\* the outcome of a call: it returned v, or it panicked
Returned(v) == [panic |-> FALSE, v |-> v]
Panicked == [panic |-> TRUE, v |-> NaN]

\* size - 1 on usize: below zero it panics when overflow checks are on and
\* wraps around otherwise
Sub1(size) ==
    IF size >= 1 THEN Returned(size - 1)
    ELSE IF overflowChecks THEN [panic |-> TRUE, v |-> 0]
    ELSE Returned(UsizeMax)

\* cosine_at with the periodic denominator: size in place of size - 1
cosine_at_periodic(a, b, c, d, size, index) ==
    LET x  == FDiv(FMul(pi, FromUsize(index)), FromUsize(size))
        b_ == FMul(b, FCos(FMul(FromLit(2000000), x)))
        c_ == FMul(c, FCos(FMul(FromLit(4000000), x)))
        d_ == FMul(d, FCos(FMul(FromLit(6000000), x)))
    IN  Returned(FAdd(FSub(a, b_), FSub(c_, d_)))

\* cosine_at opening with assert!(size > 1), as cosine_iter does
cosine_at_asserting(a, b, c, d, size, index) ==
    IF ~(size > 1) THEN Panicked
    ELSE LET x  == FDiv(FMul(pi, FromUsize(index)), FromUsize(size - 1))
             b_ == FMul(b, FCos(FMul(FromLit(2000000), x)))
             c_ == FMul(c, FCos(FMul(FromLit(4000000), x)))
             d_ == FMul(d, FCos(FMul(FromLit(6000000), x)))
         IN  Returned(FAdd(FSub(a, b_), FSub(c_, d_)))

(***************************************************************************)
(* pub fn cosine_at                                                        *)
(***************************************************************************)
cosine_at(a, b, c, d, size, index) ==
    LET m == Sub1(size)
    IN  IF m.panic THEN Panicked
        ELSE LET x  == FDiv(FMul(pi, FromUsize(index)), FromUsize(m.v))
                 b_ == FMul(b, FCos(FMul(FromLit(2000000), x)))
                 c_ == FMul(c, FCos(FMul(FromLit(4000000), x)))
                 d_ == FMul(d, FCos(FMul(FromLit(6000000), x)))
             IN  Returned(FAdd(FSub(a, b_), FSub(c_, d_)))

(***************************************************************************)
(* Iterator::next for CosineWindowIter                                     *)
(***************************************************************************)
None == [kind |-> "None", v |-> NaN]
Some(v) == [kind |-> "Some", v |-> v]
NextPanicked == [kind |-> "panic", v |-> NaN]
NoCall == [kind |-> "nocall", v |-> NaN]

\* what next returns for the iterator self when it evaluates index
Yield(self, index) ==
    LET r == cosine_at(self.a, self.b, self.c, self.d, self.size, index)
    IN  IF r.panic THEN NextPanicked ELSE Some(r.v)

\* next stopping one element early: index + 1 == size ends the traversal
next_early(self) ==
    IF self.index + 1 = self.size
    THEN [self |-> self, ret |-> None]
    ELSE [self |-> [self EXCEPT !.index = self.index + 1],
          ret |-> Yield(self, self.index)]

\* next evaluating the formula at the cursor after the increment
next_postinc(self) ==
    IF self.index = self.size
    THEN [self |-> self, ret |-> None]
    ELSE [self |-> [self EXCEPT !.index = self.index + 1],
          ret |-> Yield(self, self.index + 1)]

\* next reading a cursor shared by all instances (that of instance 1)
\* in place of its own
next_shared(self) ==
    IF self.index = self.size
    THEN [self |-> self, ret |-> None]
    ELSE [self |-> [self EXCEPT !.index = self.index + 1],
          ret |-> Yield(self, iter[1].index)]

\* next advancing the cursor by two
next_stride(self) ==
    IF self.index = self.size
    THEN [self |-> self, ret |-> None]
    ELSE [self |-> [self EXCEPT !.index = self.index + 2],
          ret |-> Yield(self, self.index)]

\* next counting size down in place of counting index up
next_countdown(self) ==
    IF self.size = 0
    THEN [self |-> self, ret |-> None]
    ELSE [self |-> [self EXCEPT !.size = self.size - 1],
          ret |-> Yield(self, self.index)]

\* next rewinding the cursor when it reports the end
next_rewind(self) ==
    IF self.index = self.size
    THEN [self |-> [self EXCEPT !.index = 0], ret |-> None]
    ELSE [self |-> [self EXCEPT !.index = self.index + 1],
          ret |-> Yield(self, self.index)]

\* the iterator after the call, and what the call returned
next(self) ==
    IF self.index = self.size
    THEN [self |-> self, ret |-> None]
    ELSE LET index == self.index
             adv   == [self EXCEPT !.index = self.index + 1]
         IN  [self |-> adv, ret |-> Yield(adv, index)]

(***************************************************************************)
(* The constructors.                                                       *)
(***************************************************************************)
\* cosine_iter asserting size > 0 only
cosine_iter_nonzero(a, b, c, d, size) ==
    IF ~(size > 0) THEN [panic |-> TRUE, v |-> CosineWindowIter(a, b, c, d, 0, size)]
    ELSE Returned(CosineWindowIter(a, b, c, d, 0, size))

\* pub fn cosine_iter: assert!(size > 1), then the struct with index 0
cosine_iter(a, b, c, d, size) ==
    IF ~(size > 1) THEN [panic |-> TRUE, v |-> CosineWindowIter(a, b, c, d, 0, size)]
    ELSE Returned(CosineWindowIter(a, b, c, d, 0, size))

\* hanning_iter handing over the Hamming coefficients
hanning_iter_hamming(size) ==
    cosine_iter(FromLit(540000), FromLit(460000), FromLit(0), FromLit(0), size)

hanning_iter(size) ==
    cosine_iter(FromLit(500000), FromLit(500000), FromLit(0), FromLit(0), size)

hamming_iter(size) ==
    cosine_iter(FromLit(540000), FromLit(460000), FromLit(0), FromLit(0), size)

blackman_iter(size) ==
    cosine_iter(FromLit(358750), FromLit(488290), FromLit(141280), FromLit(11680), size)

nuttall_iter(size) ==
    cosine_iter(FromLit(355768), FromLit(487396), FromLit(144232), FromLit(12604), size)

(***************************************************************************)
(* The callers: which arguments the model hands to the library.            *)
(***************************************************************************)
\* coefficient tuples (in millionths) handed to cosine_iter and cosine_at:
\* the Hann coefficients, the classic Blackman window and a flat-weight one
Coefs == { <<500000, 500000, 0, 0>>,
           <<420000, 500000, 80000, 0>>,
           <<250000, 250000, 250000, 250000>> }

Sizes == 0 .. MaxSize
PairSizes == 0 .. MaxPairSize

NoIter == CosineWindowIter(NaN, NaN, NaN, NaN, 0, 0)
NoAt == [called |-> FALSE, a |-> NaN, b |-> NaN, c |-> NaN, d |-> NaN,
         size |-> 0, index |-> 0, res |-> Panicked]

Init ==
    /\ overflowChecks \in BOOLEAN
    /\ status = [i \in Iters |-> "none"]
    /\ via = [i \in Iters |-> "none"]
    /\ req = [i \in Iters |-> 0]
    /\ iter = [i \in Iters |-> NoIter]
    /\ calls = [i \in Iters |-> 0]
    /\ ret = [i \in Iters |-> NoCall]
    /\ out = [i \in Iters |-> <<>>]
    /\ at = NoAt

\* instance i is bound to the outcome r of the constructor named name
Construct(i, name, size, r) ==
    /\ status' = [status EXCEPT ![i] = IF r.panic THEN "panicked" ELSE "live"]
    /\ via' = [via EXCEPT ![i] = name]
    /\ req' = [req EXCEPT ![i] = size]
    /\ iter' = [iter EXCEPT ![i] = IF r.panic THEN NoIter ELSE r.v]
    /\ UNCHANGED <<overflowChecks, calls, ret, out, at>>

CallCosineIter(i, sizes) ==
    \E co \in Coefs, size \in sizes :
        /\ status[i] = "none"
        /\ Construct(i, "cosine_iter", size,
                     cosine_iter(FromLit(co[1]), FromLit(co[2]),
                                 FromLit(co[3]), FromLit(co[4]), size))

CallHanningIter(i, sizes) ==
    \E size \in sizes :
        /\ status[i] = "none"
        /\ Construct(i, "hanning_iter", size, hanning_iter(size))

CallHammingIter(i, sizes) ==
    \E size \in sizes :
        /\ status[i] = "none"
        /\ Construct(i, "hamming_iter", size, hamming_iter(size))

CallBlackmanIter(i, sizes) ==
    \E size \in sizes :
        /\ status[i] = "none"
        /\ Construct(i, "blackman_iter", size, blackman_iter(size))

CallNuttallIter(i, sizes) ==
    \E size \in sizes :
        /\ status[i] = "none"
        /\ Construct(i, "nuttall_iter", size, nuttall_iter(size))

\* one call of next on instance i; the caller stops MaxExtra calls after
\* the first None
CallNext(i) ==
    /\ status[i] = "live"
    /\ calls[i] < iter[i].size + MaxExtra
    /\ LET r == next(iter[i])
       IN  /\ iter' = [iter EXCEPT ![i] = r.self]
           /\ ret' = [ret EXCEPT ![i] = r.ret]
           /\ out' = [out EXCEPT ![i] =
                         IF r.ret.kind = "Some" THEN Append(@, r.ret.v) ELSE @]
    /\ calls' = [calls EXCEPT ![i] = @ + 1]
    /\ UNCHANGED <<overflowChecks, status, via, req, at>>

\* a direct call of the public function cosine_at
CallCosineAt ==
    \E co \in Coefs, size \in Sizes, index \in 0 .. MaxIndex :
        /\ at' = [called |-> TRUE,
                  a |-> FromLit(co[1]), b |-> FromLit(co[2]),
                  c |-> FromLit(co[3]), d |-> FromLit(co[4]),
                  size |-> size, index |-> index,
                  res |-> cosine_at(FromLit(co[1]), FromLit(co[2]),
                                    FromLit(co[3]), FromLit(co[4]), size, index)]
        /\ UNCHANGED <<overflowChecks, status, via, req, iter, calls, ret, out>>

\* a program that builds one iterator and traverses it
Next ==
    \/ CallCosineIter(1, Sizes)
    \/ CallHanningIter(1, Sizes)
    \/ CallHammingIter(1, Sizes)
    \/ CallBlackmanIter(1, Sizes)
    \/ CallNuttallIter(1, Sizes)
    \/ CallNext(1)

Spec == Init /\ [][Next]_vars

\* a program that builds two iterators and traverses them in any interleaving
NextPair ==
    \/ \E i \in Iters : CallCosineIter(i, PairSizes)
    \/ \E i \in Iters : CallHanningIter(i, PairSizes)
    \/ \E i \in Iters : CallHammingIter(i, PairSizes)
    \/ \E i \in Iters : CallBlackmanIter(i, PairSizes)
    \/ \E i \in Iters : CallNuttallIter(i, PairSizes)
    \/ \E i \in Iters : CallNext(i)

SpecPair == Init /\ [][NextPair]_vars

\* a program that calls the formula cosine_at directly
SpecAt == Init /\ [][CallCosineAt]_vars

(***************************************************************************)
(* The properties.                                                         *)
(***************************************************************************)
Live(i) == status[i] = "live"
Presets == {"hanning_iter", "hamming_iter", "blackman_iter", "nuttall_iter"}
Min(m, n) == IF m < n THEN m ELSE n

\* x and y are finite and equal within floating-point tolerance
Near(x, y) == IsFin(x) /\ IsFin(y) /\ Abs(x.v - y.v) <= Tol

\* C1: a constructor (cosine_iter or any preset) called with size <= 1
\* panics: no iterator comes back, and no call of next and no window value
\* ever exists for that instance.
C1_RejectsSmallSize ==
    \A i \in Iters :
        (status[i] # "none" /\ req[i] <= 1) =>
            /\ status[i] = "panicked"
            /\ iter[i] = NoIter
            /\ calls[i] = 0
            /\ ret[i] = NoCall
            /\ out[i] = <<>>

C1_Witness ==
    /\ via[1] = "nuttall_iter"
    /\ req[1] = 1
    /\ status[1] = "panicked"

\* C2: an iterator of size > 1 yields exactly size values: each of the
\* first size calls of next returns Some, every later call returns None.
C2_ExactlySizeValues ==
    \A i \in Iters :
        Live(i) =>
            /\ iter[i].size = req[i]
            /\ Len(out[i]) = Min(calls[i], req[i])
            /\ (calls[i] >= 1 /\ calls[i] <= req[i]) => ret[i].kind = "Some"
            /\ calls[i] > req[i] => ret[i] = None

C2_Witness ==
    /\ Live(1)
    /\ via[1] = "cosine_iter"
    /\ calls[1] = req[1] + 1
    /\ Len(out[1]) = req[1]
    /\ ret[1] = None

\* C3: the k-th value next yields (k counted from 0) is cosine_at of the
\* iterator's own coefficients and size at index k; the cursor equals the
\* number of values yielded, so no index is skipped, repeated or >= size.
C3_KthValueIsCosineAt ==
    \A i \in Iters :
        Live(i) =>
            /\ iter[i].index = Len(out[i])
            /\ Len(out[i]) <= iter[i].size
            /\ \A k \in 0 .. Len(out[i]) - 1 :
                  LET r == cosine_at(iter[i].a, iter[i].b, iter[i].c, iter[i].d,
                                     req[i], k)
                  IN  ~r.panic /\ out[i][k + 1] = r.v

C3_Witness ==
    /\ Live(1)
    /\ via[1] = "blackman_iter"
    /\ req[1] = 5
    /\ Len(out[1]) = 5

\* 0.5 - 0.5 * cos(2 * pi * k / (size - 1)), evaluated in T
HannAt(size, k) ==
    FSub(FromLit(500000),
         FMul(FromLit(500000),
              FCos(FDiv(FMul(FMul(FromLit(2000000), pi), FromUsize(k)),
                        FromUsize(size - 1)))))

\* the Hann window of size 7, in units of 1/Scale
Hann7 == << 0, Scale \div 4, 3 * (Scale \div 4), Scale, 3 * (Scale \div 4), Scale \div 4, 0 >>

\* C4: hanning_iter(size) carries the coefficients 0.5, 0.5, 0, 0 and its
\* k-th value is 0.5 - 0.5 cos(2 pi k / (size - 1)); for size 7 the values
\* are 0, 0.25, 0.75, 1, 0.75, 0.25, 0.
C4_HanningWindow ==
    \A i \in Iters :
        (Live(i) /\ via[i] = "hanning_iter") =>
            /\ iter[i].a = FromLit(500000)
            /\ iter[i].b = FromLit(500000)
            /\ iter[i].c = FromLit(0)
            /\ iter[i].d = FromLit(0)
            /\ \A k \in 0 .. Len(out[i]) - 1 :
                  /\ Near(out[i][k + 1], HannAt(req[i], k))
                  /\ req[i] = 7 => Near(out[i][k + 1], Fin(Hann7[k + 1]))

C4_Witness ==
    /\ Live(1)
    /\ via[1] = "hanning_iter"
    /\ req[1] = 7
    /\ Len(out[1]) = 7

\* C5: two iterators built with the same coefficients and the same size
\* have yielded the same values at every position both have reached,
\* however the calls of next on the two were interleaved.
C5_SameWindowReplayed ==
    \A i, j \in Iters :
        (/\ Live(i) /\ Live(j)
         /\ iter[i].a = iter[j].a /\ iter[i].b = iter[j].b
         /\ iter[i].c = iter[j].c /\ iter[i].d = iter[j].d
         /\ req[i] = req[j]) =>
            \A k \in 1 .. Min(Len(out[i]), Len(out[j])) : out[i][k] = out[j][k]

C5_Witness ==
    /\ Live(1) /\ Live(2)
    /\ via[1] = "hanning_iter" /\ via[2] = "cosine_iter"
    /\ iter[1].a = iter[2].a /\ iter[1].b = iter[2].b
    /\ iter[1].c = iter[2].c /\ iter[1].d = iter[2].d
    /\ req[1] = 4 /\ req[2] = 4
    /\ Len(out[1]) = 4 /\ Len(out[2]) = 2

\* C6: 0 <= index <= size in every state, and a call of next returns None
\* exactly when it finds index = size and a value exactly when it finds
\* index < size.
C6_CursorWithinSize ==
    /\ [](\A i \in Iters : Live(i) => iter[i].index \in 0 .. iter[i].size)
    /\ [][\A i \in Iters :
            calls'[i] # calls[i] =>
                /\ ret'[i] = None <=> iter[i].index = iter[i].size
                /\ ret'[i].kind = "Some" <=> iter[i].index < iter[i].size]_vars

C6_Witness ==
    /\ Live(1)
    /\ iter[1].index = iter[1].size
    /\ ret[1] = None

C8_PresetsSymmetric ==
    \A i \in Iters :
        (Live(i) /\ via[i] \in Presets) =>
            \A k \in 0 .. Len(out[i]) - 1 :
                req[i] - 1 - k < Len(out[i]) =>
                    Near(out[i][k + 1], out[i][req[i] - 1 - k + 1])

C8_Witness ==
    /\ Live(1)
    /\ via[1] = "nuttall_iter"
    /\ req[1] = 6
    /\ Len(out[1]) = 6
    /\ out[1][2] # out[1][1]

\* C9: a call of next that yields a value adds one to index and leaves
\* a, b, c, d and size as they were; index never decreases.
C9_NextMovesOnlyCursor ==
    [][\A i \in Iters :
         /\ (calls'[i] # calls[i] /\ ret'[i].kind = "Some") =>
                iter'[i] = [iter[i] EXCEPT !.index = iter[i].index + 1]
         /\ (Live(i) /\ Live(i)') => iter'[i].index >= iter[i].index]_vars

C9_Witness ==
    /\ Live(1)
    /\ calls[1] = 3
    /\ ret[1].kind = "Some"
    /\ iter[1].index = 3

\* C10: a call of next on an exhausted iterator (index = size) returns
\* None and leaves the iterator as it was, so it never yields again and
\* index never passes size.
C10_Fused ==
    [][\A i \in Iters :
         (Live(i) /\ iter[i].index = iter[i].size /\ calls'[i] # calls[i]) =>
             /\ ret'[i] = None
             /\ iter'[i] = iter[i]
             /\ out'[i] = out[i]]_vars

C10_Witness ==
    /\ Live(1)
    /\ calls[1] = req[1] + 2
    /\ iter[1].index = req[1]
    /\ ret[1] = None

====
